---- MODULE Spec2Model ----
(***************************************************************************)
(* build-it: the Builder derive macro (src/src/lib.rs).                    *)
(*                                                                         *)
(* derive_builder receives a parsed item (DeriveInput), reads the          *)
(* structure-level build_it attribute, rejects enums, unions and tuple     *)
(* structs, and emits one impl block holding one builder method per        *)
(* non-skipped Option<T> field.  A panic of the macro (an .expect() on a   *)
(* failed parse, Ident::new on a string that is no identifier) is an       *)
(* outcome of its own: the compiler reports it at the derive site, and no  *)
(* token is emitted.                                                       *)
(***************************************************************************)
EXTENDS Integers, Sequences, FiniteSets, TLC

VARIABLES
    pc,           \* position in derive_builder, or "call"/"ret" of a single function
    input,        \* the DeriveInput: [data, attrs]
    global_attr,  \* GlobalAttr parsed from the item's attributes
    fields,       \* the named fields handed to generate_builder_method so far
    methods,      \* the fragment generate_builder_method returned for each of them
    output,       \* the TokenStream derive_builder returns (or its panic)
    arg,          \* argument of a function applied on its own
    ret           \* its return value

vars == <<pc, input, global_attr, fields, methods, output, arg, ret>>

(***************************************************************************)
(* Bounds of the input space.                                              *)
(***************************************************************************)
MaxMetas == 2       \* sub-options inside one #[build_it(...)]
MaxAttrs == 2       \* attributes on one field
MaxFields == 2      \* named fields of a structure
MaxStructAttrs == 1 \* attributes on the item
MaxSegments == 2    \* segments of a type path
MaxArgs == 2        \* generic arguments of one path segment

SeqsUpTo(S, n) == UNION {[1..k -> S] : k \in 0..n}

(***************************************************************************)
(* Attributes.  A sub-option of build_it is a key and what follows it:     *)
(* nothing, a string literal after =, or another literal after =.          *)
(***************************************************************************)
NoVal == [kind |-> "none", s |-> ""]
StrVal(s) == [kind |-> "str", s |-> s]
IntVal == [kind |-> "int", s |-> "5"]

Meta(key, val) == [key |-> key, val |-> val]

\* "new name" is a string literal that is not an identifier.
InvalidIdents == {"", "new name"}

MetaKeys == {"skip", "into", "rename", "other"}
MetaVals == {NoVal, StrVal("new_name"), StrVal("new name"), IntVal}
AllMetas == {Meta(k, v) : k \in MetaKeys, v \in MetaVals}

Attribute(path, metas) == [path |-> path, metas |-> metas]
LegacySkip == Attribute("skip", <<>>)
Doc == Attribute("doc", <<>>)
BuildIt(metas) == Attribute("build_it", metas)

\* One attribute carrying at most one sub-option.
SingleOptionAttrs == {LegacySkip, Doc} \cup {BuildIt(<<m>>) : m \in AllMetas}
\* A build_it directive with up to MaxMetas sub-options.
Directives == SeqsUpTo(AllMetas, MaxMetas)
\* The attribute lists a field is drawn with: up to MaxAttrs attributes of one
\* sub-option each, or one directive of up to MaxMetas sub-options.
AttrLists == SeqsUpTo(SingleOptionAttrs, MaxAttrs) \cup {<<BuildIt(d)>> : d \in Directives}

(***************************************************************************)
(* Types (syn::Type).                                                      *)
(***************************************************************************)
NoArguments == [kind |-> "None", args |-> <<>>]
Parenthesized == [kind |-> "Parenthesized", args |-> <<>>]
AngleBracketed(args) == [kind |-> "AngleBracketed", args |-> args]
TypeArg(t) == [kind |-> "Type", ty |-> t]
LifetimeArg == [kind |-> "Lifetime", ty |-> "'a"]
ConstArg == [kind |-> "Const", ty |-> "1"]
Segment(ident, arguments) == [ident |-> ident, arguments |-> arguments]
PathType(segments) == [kind |-> "Path", segments |-> segments]
ReferenceType == [kind |-> "Reference", segments |-> <<>>]

GenericArgs == {TypeArg("u32"), LifetimeArg, ConstArg}
PathArguments == {NoArguments, Parenthesized} \cup {AngleBracketed(a) : a \in SeqsUpTo(GenericArgs, MaxArgs)}
Segments == {Segment(i, a) : i \in {"Option", "std"}, a \in PathArguments}
Types == {ReferenceType} \cup {PathType(s) : s \in SeqsUpTo(Segments, MaxSegments) \ {<<>>}}

OptionU32 == PathType(<<Segment("Option", AngleBracketed(<<TypeArg("u32")>>))>>)
VecU32 == PathType(<<Segment("Vec", AngleBracketed(<<TypeArg("u32")>>))>>)
StringTy == PathType(<<Segment("String", NoArguments)>>)
FieldTypes == {OptionU32, VecU32, StringTy}

None == <<>>
Some(v) == <<v>>

(***************************************************************************)
(* get_inner_type                                                          *)
(***************************************************************************)
get_inner_type_LastSegment(ty) ==
    IF ty.kind = "Path" /\ Len(ty.segments) > 0
    THEN LET segment == ty.segments[Len(ty.segments)] IN
         IF segment.ident = "Option"
            /\ segment.arguments.kind = "AngleBracketed"
            /\ Len(segment.arguments.args) > 0
            /\ segment.arguments.args[1].kind = "Type"
         THEN Some(segment.arguments.args[1].ty)
         ELSE None
    ELSE None

get_inner_type_AnyIdent(ty) ==
    IF ty.kind = "Path" /\ Len(ty.segments) > 0
    THEN LET segment == ty.segments[1] IN
         IF segment.arguments.kind = "AngleBracketed"
            /\ Len(segment.arguments.args) > 0
            /\ segment.arguments.args[1].kind = "Type"
         THEN Some(segment.arguments.args[1].ty)
         ELSE None
    ELSE None

get_inner_type(ty) ==
    IF ty.kind = "Path" /\ Len(ty.segments) > 0
    THEN LET segment == ty.segments[1] IN
         IF segment.ident = "Option"
            /\ segment.arguments.kind = "AngleBracketed"
            /\ Len(segment.arguments.args) > 0
            /\ segment.arguments.args[1].kind = "Type"
         THEN Some(segment.arguments.args[1].ty)
         ELSE None
    ELSE None

(***************************************************************************)
(* Directive parsing.  parse_nested_meta hands each sub-option's path to   *)
(* the closure; after the closure returns Ok the next token must be a      *)
(* comma or the end, so a value the closure did not consume is an error.   *)
(***************************************************************************)
DefaultAttr == [skip |-> FALSE, into |-> FALSE, rename |-> None]
DefaultGlobalAttr == [into |-> FALSE]

Ok(v) == [kind |-> "ok", attr |-> v]
Err(msg) == [kind |-> "err", msg |-> msg]
Panic(msg) == [kind |-> "panic", msg |-> msg]

\* What the closure leaves unread: the sub-option's value unless it took it.
Separator(meta, result) ==
    IF meta.val.kind = "none" THEN Ok(result) ELSE Err("expected comma")

\* The closure of parse_attr.
AttrLogic(result, meta) ==
    IF meta.key = "skip" THEN Separator(meta, [result EXCEPT !.skip = TRUE])
    ELSE IF meta.key = "into" THEN Separator(meta, [result EXCEPT !.into = TRUE])
    ELSE IF meta.key = "rename" THEN
        IF meta.val.kind = "none" THEN Panic("Expected a value")
        ELSE IF meta.val.kind = "str" THEN Ok([result EXCEPT !.rename = Some(meta.val.s)])
        ELSE Err("expected string literal")
    ELSE Separator(meta, result)

\* The closure of parse_global_attr.
GlobalAttrLogic(result, meta) ==
    IF meta.key = "into" THEN Separator(meta, [result EXCEPT !.into = TRUE])
    ELSE Separator(meta, result)

Logic(level, result, meta) ==
    IF level = "field" THEN AttrLogic(result, meta) ELSE GlobalAttrLogic(result, meta)

RECURSIVE parse_nested_meta(_, _, _)
parse_nested_meta(level, metas, result) ==
    IF metas = <<>> THEN Ok(result)
    ELSE LET r == Logic(level, result, Head(metas)) IN
         IF r.kind = "ok" THEN parse_nested_meta(level, Tail(metas), r.attr) ELSE r

\* attrs.iter().find(|attr| attr.path().is_ident("build_it"))
RECURSIVE find_build_it(_)
find_build_it(attrs) ==
    IF attrs = <<>> THEN None
    ELSE IF Head(attrs).path = "build_it" THEN Some(Head(attrs))
    ELSE find_build_it(Tail(attrs))

parse_attr(field) ==
    LET attr == find_build_it(field.attrs) IN
    IF attr = None THEN Ok(DefaultAttr)
    ELSE LET r == parse_nested_meta("field", attr[1].metas, DefaultAttr) IN
         IF r.kind = "err" THEN Panic("Failed to parse build_it attribute") ELSE r

parse_global_attr(item) ==
    LET attr == find_build_it(item.attrs) IN
    IF attr = None THEN Ok(DefaultGlobalAttr)
    ELSE LET r == parse_nested_meta("global", attr[1].metas, DefaultGlobalAttr) IN
         IF r.kind = "err" THEN Panic("Failed to parse global build_it attribute") ELSE r

(***************************************************************************)
(* generate_builder_method                                                 *)
(***************************************************************************)
Field(ident, attrs, ty) == [ident |-> ident, attrs |-> attrs, ty |-> ty]

Empty == [kind |-> "empty"]
FieldSpan(field) == [at |-> "field", ident |-> field.ident]
CompileError(span, msg) == [kind |-> "compile_error", span |-> span, msg |-> msg]
InvalidFieldType(field) ==
    CompileError(FieldSpan(field), "Builder only works on Option<T> fields. Consider using #[skip] to skip fields that should not be optional.")

\* pub fn #fn_name(mut self, #param: #param_ty) -> Self { self.#assigns = Some(#value); self }
\* param_ty is impl Into<inner> when into holds and inner otherwise; the value
\* stored is #param.into() when into holds and #param otherwise.
Method(docs, name, field_name, inner, into) ==
    [kind |-> "method", docs |-> docs, fn_name |-> name, param |-> field_name,
     param_ty |-> [impl_into |-> into, ty |-> inner],
     assigns |-> field_name, value |-> [of |-> field_name, into |-> into]]

IsDoc(attr) == attr.path = "doc"

\* field.attrs.iter().any(|attr| attr.path().is_ident("skip"))
legacy_skip_Ignored(field) == FALSE

legacy_skip(field) == \E i \in 1..Len(field.attrs) : field.attrs[i].path = "skip"

\* attr.rename.unwrap_or(field_name.to_string())
fn_name_IgnoresRename(attr, field_name) == field_name

fn_name(attr, field_name) == IF attr.rename # None THEN attr.rename[1] ELSE field_name

\* attr.into || global_attr.into
use_into_FieldOnly(attr, global) == attr.into

use_into(attr, global) == attr.into \/ global.into

generate_builder_method(field, global) ==
    IF legacy_skip(field) THEN Empty
    ELSE LET parsed == parse_attr(field) IN
         IF parsed.kind = "panic" THEN parsed
         ELSE IF parsed.attr.skip THEN Empty
         ELSE LET name == fn_name(parsed.attr, field.ident)
                  field_ty == get_inner_type(field.ty)
              IN IF name \in InvalidIdents THEN Panic("not a valid Ident")
                 ELSE IF field_ty = None THEN InvalidFieldType(field)
                 ELSE Method(SelectSeq(field.attrs, IsDoc), name, field.ident,
                             field_ty[1], use_into(parsed.attr, global))

(***************************************************************************)
(* Single functions applied to inputs drawn from the bounded sets.         *)
(***************************************************************************)
Idle == [kind |-> "none"]

InitCall(a) ==
    /\ pc = "call"
    /\ arg = a
    /\ ret = Idle
    /\ input = Idle
    /\ global_attr = DefaultGlobalAttr
    /\ fields = <<>>
    /\ methods = <<>>
    /\ output = Idle

Return(fn, value) ==
    /\ pc = "call"
    /\ pc' = "ret"
    /\ ret' = [fn |-> fn, value |-> value]
    /\ UNCHANGED <<input, global_attr, fields, methods, output, arg>>

\* get_inner_type on a type.
InitType == \E ty \in Types : InitCall(ty)
CallGetInnerType == Return("get_inner_type", get_inner_type(arg))
NextType == CallGetInnerType
SpecType == InitType /\ [][NextType]_vars

\* parse_attr and parse_global_attr on an attribute list.
InitAttr == \E attrs \in AttrLists : InitCall([attrs |-> attrs])
CallParseAttr == Return("parse_attr", parse_attr(arg))
CallParseGlobalAttr == Return("parse_global_attr", parse_global_attr(arg))
NextAttr == CallParseAttr \/ CallParseGlobalAttr
SpecAttr == InitAttr /\ [][NextAttr]_vars

\* generate_builder_method on one field under a structure-level into flag.
InitMethod ==
    \E attrs \in AttrLists, ty \in FieldTypes, into \in BOOLEAN :
        InitCall([field |-> Field("name", attrs, ty), global_attr |-> [into |-> into]])
CallGenerateBuilderMethod ==
    Return("generate_builder_method", generate_builder_method(arg.field, arg.global_attr))
NextMethod == CallGenerateBuilderMethod
SpecMethod == InitMethod /\ [][NextMethod]_vars

(***************************************************************************)
(* generate_builder_impl and derive_builder                                *)
(***************************************************************************)
IsPanic(fragment) == fragment.kind = "panic"
NotEmpty(fragment) == fragment.kind # "empty"

\* fields.iter().map(|f| generate_builder_method(f, global_attr))
map_methods(fs, global) == [i \in 1..Len(fs) |-> generate_builder_method(fs[i], global)]

\* The iterator is consumed in order by quote!: the first panic ends the macro.
FirstPanic(ms) == ms[CHOOSE i \in 1..Len(ms) : IsPanic(ms[i]) /\ \A j \in 1..(i - 1) : ~IsPanic(ms[j])]

ImplBlock(item, items) == [kind |-> "impl", name |-> item.ident, generics |-> item.generics, items |-> items]

RECURSIVE Reverse(_)
Reverse(s) == IF s = <<>> THEN <<>> ELSE Append(Reverse(Tail(s)), Head(s))

IsError(fragment) == fragment.kind = "compile_error"

\* An earlier variant of the macro: the first invalid field aborts the structure.
generate_builder_impl_AbortOnError(item, global, fs) ==
    LET ms == map_methods(fs, global) IN
    IF \E i \in 1..Len(ms) : IsPanic(ms[i]) THEN FirstPanic(ms)
    ELSE IF \E i \in 1..Len(ms) : IsError(ms[i]) THEN SelectSeq(ms, IsError)[1]
    ELSE ImplBlock(item, SelectSeq(ms, NotEmpty))

generate_builder_impl_Reversed(item, global, fs) ==
    LET ms == map_methods(fs, global) IN
    IF \E i \in 1..Len(ms) : IsPanic(ms[i]) THEN FirstPanic(ms)
    ELSE ImplBlock(item, Reverse(SelectSeq(ms, NotEmpty)))

\* impl #generics #name #generics { #(#methods)* }: the fragments are spliced
\* one after the other, an empty fragment contributing nothing.
generate_builder_impl(item, global, fs) ==
    LET ms == map_methods(fs, global) IN
    IF \E i \in 1..Len(ms) : IsPanic(ms[i]) THEN FirstPanic(ms)
    ELSE ImplBlock(item, SelectSeq(ms, NotEmpty))

DataKinds == {"struct_named", "struct_unit", "struct_unnamed", "enum", "union"}

\* The inputs of the whole macro: the item's attributes carry one sub-option
\* each, a field carries at most one attribute.
StructMetas ==
    {Meta("into", NoVal), Meta("other", NoVal), Meta("other", StrVal("new_name")),
     Meta("rename", StrVal("new_name"))}
StructAttrLists == SeqsUpTo({Doc} \cup {BuildIt(<<m>>) : m \in StructMetas}, MaxStructAttrs)
StructFieldMetas ==
    {Meta("skip", NoVal), Meta("into", NoVal), Meta("rename", StrVal("new_name")),
     Meta("rename", NoVal)}
StructFieldAttrLists == {<<>>, <<LegacySkip>>, <<Doc>>} \cup {<<BuildIt(<<m>>)>> : m \in StructFieldMetas}
FieldIdents == <<"name", "age", "address", "phone">>
ProtoFields == {Field("", a, t) : a \in StructFieldAttrLists, t \in {OptionU32, StringTy}}
NamedFields ==
    {[i \in 1..Len(f) |-> Field(FieldIdents[i], f[i].attrs, f[i].ty)] : f \in SeqsUpTo(ProtoFields, MaxFields)}

DeriveInput(data, attrs, fs) ==
    [ident |-> "S", generics |-> "<'a>", data |-> data, attrs |-> attrs, fields |-> fs]
DeriveInputs ==
    {DeriveInput("struct_named", a, fs) : a \in StructAttrLists, fs \in NamedFields}
    \cup {DeriveInput(d, a, <<>>) : d \in DataKinds \ {"struct_named"}, a \in StructAttrLists}

Init ==
    /\ pc = "start"
    /\ input \in DeriveInputs
    /\ global_attr = DefaultGlobalAttr
    /\ fields = <<>>
    /\ methods = <<>>
    /\ output = Idle
    /\ arg = Idle
    /\ ret = Idle

Finish(tokens) ==
    /\ pc' = "done"
    /\ output' = tokens

\* let global_attr = parse_global_attr(&input);
ParseGlobalAttr ==
    /\ pc = "start"
    /\ LET r == parse_global_attr(input) IN
       IF r.kind = "panic"
       THEN Finish(r) /\ UNCHANGED global_attr
       ELSE pc' = "match_data" /\ global_attr' = r.attr /\ UNCHANGED output
    /\ UNCHANGED <<input, fields, methods, arg, ret>>

\* let data = match input.data { ... }; if let Err(err) = data { return ... }
MatchData ==
    /\ pc = "match_data"
    /\ IF input.data = "enum"
       THEN Finish(CompileError([at |-> "enum_token"], "Builder derive does not work on enums"))
       ELSE IF input.data = "union"
       THEN Finish(CompileError([at |-> "union_token"], "Builder derive does not work on unions"))
       ELSE pc' = "match_fields" /\ UNCHANGED output
    /\ UNCHANGED <<input, global_attr, fields, methods, arg, ret>>

\* let fields = match data.fields { ... };
MatchFields ==
    /\ pc = "match_fields"
    /\ IF input.data = "struct_unit"
       THEN Finish(Empty) /\ UNCHANGED fields
       ELSE IF input.data = "struct_unnamed"
       THEN /\ Finish(CompileError([at |-> "fields"], "Builder derive only works on structs with named fields"))
            /\ UNCHANGED fields
       ELSE pc' = "generate" /\ fields' = input.fields /\ UNCHANGED output
    /\ UNCHANGED <<input, global_attr, methods, arg, ret>>

\* generate_builder_impl(&input, &global_attr, fields).into()
GenerateBuilderImpl ==
    /\ pc = "generate"
    /\ methods' = map_methods(fields, global_attr)
    /\ Finish(generate_builder_impl(input, global_attr, fields))
    /\ UNCHANGED <<input, global_attr, fields, arg, ret>>

Next == ParseGlobalAttr \/ MatchData \/ MatchFields \/ GenerateBuilderImpl

Spec == Init /\ [][Next]_vars

(***************************************************************************)
(* Properties.                                                             *)
(*                                                                         *)
(* A field's directive set is what parse_attr resolves from the field's    *)
(* build_it attribute (the first one: it is the only one parse_attr        *)
(* reads).  A field is marked skip when it carries the legacy #[skip]      *)
(* attribute or its directive set has skip set.  The properties of what    *)
(* is generated are stated of the calls that return: a call that panics    *)
(* on a directive it cannot parse generates nothing at all.                *)
(***************************************************************************)
Returned(fn) == pc = "ret" /\ ret.fn = fn
Resolves(f) == parse_attr(f).kind = "ok"
Directive(f) == parse_attr(f).attr
HasLegacySkip(f) == \E i \in 1..Len(f.attrs) : f.attrs[i] = LegacySkip
MarkedSkip(f) == HasLegacySkip(f) \/ (Resolves(f) /\ Directive(f).skip)
NonSkipped(f) == ~HasLegacySkip(f) /\ Resolves(f) /\ ~Directive(f).skip

\* The single-argument Option<T> shape of a declared type.
IsOptionShape(ty) ==
    /\ ty.kind = "Path"
    /\ ty.segments[1].ident = "Option"
    /\ ty.segments[1].arguments.kind = "AngleBracketed"
    /\ Len(ty.segments[1].arguments.args) >= 1
    /\ ty.segments[1].arguments.args[1].kind = "Type"
FirstArgument(ty) == ty.segments[1].arguments.args[1].ty

C4_IntoIsFieldOrGlobal ==
    (Returned("generate_builder_method") /\ ret.value.kind = "method") =>
        LET convert == Directive(arg.field).into \/ arg.global_attr.into IN
        /\ ret.value.param_ty = [impl_into |-> convert, ty |-> FirstArgument(arg.field.ty)]
        /\ ret.value.value.into = convert

C4_Witness ==
    /\ Returned("generate_builder_method")
    /\ arg.global_attr.into
    /\ arg.field.attrs = <<Doc>>
    /\ arg.field.ty = OptionU32
    /\ ret.value.kind = "method"
    /\ ret.value.param_ty = [impl_into |-> TRUE, ty |-> "u32"]

\* The sub-options of the directive parse_attr reads, and a rename in it that
\* has no string literal, after sub-options that parse.
FirstDirective(attrs) == find_build_it(attrs)[1].metas
WellFormedFlag(meta) == meta.key # "rename" /\ meta.val.kind = "none"
HasMalformedRename(f) ==
    /\ ~HasLegacySkip(f)
    /\ find_build_it(f.attrs) # None
    /\ \E i \in 1..Len(FirstDirective(f.attrs)) :
          /\ FirstDirective(f.attrs)[i].key = "rename"
          /\ FirstDirective(f.attrs)[i].val.kind \in {"none", "int"}
          /\ \A j \in 1..(i - 1) : WellFormedFlag(FirstDirective(f.attrs)[j])
\* C7 as claimed: a field whose build_it directive has rename without a value,
\* or with a value that is not a string literal, yields a diagnostic located
\* at the directive, and no method.
C7_MalformedRenameIsLocatedDiagnostic ==
    (Returned("generate_builder_method") /\ HasMalformedRename(arg.field))
        => /\ ret.value.kind = "compile_error"
           /\ ret.value.span = [at |-> "directive", ident |-> arg.field.ident]

\* The keys each level recognizes, and the parse of a directive once its
\* sub-options of other keys are removed.
KnownFieldKey(meta) == meta.key \in {"skip", "into", "rename"}
KnownGlobalKey(meta) == meta.key = "into"
WithoutUnknown(fn, metas) ==
    IF fn = "parse_attr"
    THEN parse_nested_meta("field", SelectSeq(metas, KnownFieldKey), DefaultAttr)
    ELSE parse_nested_meta("global", SelectSeq(metas, KnownGlobalKey), DefaultGlobalAttr)
HasUnknown(fn, metas) ==
    IF fn = "parse_attr"
    THEN SelectSeq(metas, KnownFieldKey) # metas
    ELSE SelectSeq(metas, KnownGlobalKey) # metas
\* C8 as claimed: a directive with a sub-option of an unrecognized key, bare
\* or with a value, parses to the directive set of the same directive without
\* that sub-option.
C8_UnknownSubOptionsIgnored ==
    (/\ pc = "ret"
     /\ ret.fn \in {"parse_attr", "parse_global_attr"}
     /\ find_build_it(arg.attrs) # None
     /\ HasUnknown(ret.fn, FirstDirective(arg.attrs))
     /\ WithoutUnknown(ret.fn, FirstDirective(arg.attrs)).kind = "ok")
        => ret.value = WithoutUnknown(ret.fn, FirstDirective(arg.attrs))

\* C10: get_inner_type matches exactly the path types whose first segment is
\* named Option and has an angle-bracketed argument list whose first entry is
\* a type, and returns that entry; a path that only ends in Option, Option
\* without arguments and Option whose first argument is a lifetime or a
\* constant do not match.
C10_FirstSegmentOption ==
    Returned("get_inner_type") =>
        /\ ret.value # None <=> IsOptionShape(arg)
        /\ IsOptionShape(arg) => ret.value = Some(FirstArgument(arg))
        /\ (arg.kind = "Path" /\ arg.segments[1].ident # "Option") => ret.value = None
        /\ (arg.kind = "Path" /\ arg.segments[1].arguments.kind # "AngleBracketed") => ret.value = None
        /\ (arg.kind = "Path" /\ arg.segments[1].arguments.kind = "AngleBracketed"
              /\ Len(arg.segments[1].arguments.args) >= 1
              /\ arg.segments[1].arguments.args[1].kind \in {"Lifetime", "Const"}) => ret.value = None
        /\ arg.kind # "Path" => ret.value = None

C10_Witness ==
    /\ Returned("get_inner_type")
    /\ arg = PathType(<<Segment("std", NoArguments),
                        Segment("Option", AngleBracketed(<<TypeArg("u32")>>))>>)
    /\ ret.value = None

IsMethod(fragment) == fragment.kind = "method"
Offending(f) == NonSkipped(f) /\ ~IsOptionShape(f.ty)
NotOffending(f) == ~Offending(f)
Buildable(f) == NonSkipped(f) /\ IsOptionShape(f.ty)
Assigned(items) == [i \in 1..Len(items) |-> items[i].assigns]
Idents(fs) == [i \in 1..Len(fs) |-> fs[i].ident]
Generated == pc = "done" /\ input.data = "struct_named" /\ output.kind # "panic"

\* C5: for a structure with N named fields, none marked skip and all of the
\* Option<T> shape, the macro returns one impl block of exactly N methods, the
\* i-th of which sets the i-th declared field.
C5_OneMethodPerFieldInOrder ==
    (Generated /\ \A i \in 1..Len(input.fields) : Buildable(input.fields[i]))
        => /\ output.kind = "impl"
           /\ output.name = input.ident
           /\ Len(output.items) = Len(input.fields)
           /\ \A i \in 1..Len(input.fields) :
                 /\ output.items[i].kind = "method"
                 /\ output.items[i].assigns = input.fields[i].ident

C5_Witness ==
    /\ Generated
    /\ Len(input.fields) = 2
    /\ \A i \in 1..2 : Buildable(input.fields[i])
    /\ Assigned(output.items) = <<"name", "age">>

\* C6 as claimed: an enumeration, a union or a tuple structure ends with its
\* unsupported-shape diagnostic whatever attributes it carries, and a unit
\* structure with empty output.
C6_UnsupportedShapeDiagnostic ==
    pc = "done" =>
        /\ input.data = "enum" =>
              output = CompileError([at |-> "enum_token"], "Builder derive does not work on enums")
        /\ input.data = "union" =>
              output = CompileError([at |-> "union_token"], "Builder derive does not work on unions")
        /\ input.data = "struct_unnamed" =>
              output = CompileError([at |-> "fields"], "Builder derive only works on structs with named fields")
        /\ input.data = "struct_unit" => output = Empty

====
